---------------------------- MODULE Spec2Model ----------------------------
(***************************************************************************)
(* Court Data Fetcher: the Flask endpoints of backend/app.py and the       *)
(* CourtDataFetcher class of backend/scraper.py.                           *)
(*                                                                         *)
(* Python str values are TLA+ strings (Len, SubSeq and \o work on them),   *)
(* Python dicts are records whose DOMAIN is the set of keys, Python lists  *)
(* are sequences.  A datetime is modelled by its proleptic Gregorian day   *)
(* ordinal (datetime.toordinal()); the time of day is not modelled.        *)
(***************************************************************************)
EXTENDS Integers, Sequences, FiniteSets, TLC

VARIABLES
    now,            \* datetime.now(), as a day ordinal
    query_logs,     \* rows of the query_logs table (app.py:35-46), oldest first
    http,           \* the HTTP exchange in flight: [kind |-> "idle"] or a response
    ret,            \* the fetcher method call in flight: [kind |-> "idle"] or its return
    call,           \* fetch_case_data_real: the frame of each in-flight call
    captcha_file,   \* the file captcha_temp.png in the working directory
    session         \* self.session, the requests.Session of the fetcher

vars == <<now, query_logs, http, ret, call, captcha_file, session>>

---------------------------------------------------------------------------
(* Bounds of the model *)

\* rows the query_logs table holds before the model stops accepting requests
MaxLogs == 2
\* days the clock advances past StartDay
MaxTicks == 1
\* index of the last "seed" of the categorical random.choice draws
MaxPick == 1
\* calls of fetch_case_data_real in flight at once
NumCalls == 2

---------------------------------------------------------------------------
(* Python str operations *)

Char(s, i) == SubSeq(s, i, i)

Digits == "0123456789"

\* c is one of the characters of the string set
InStr(c, set) == \E i \in 1..Len(set) : Char(set, i) = c

IsDigitChar(c) == InStr(c, Digits)

IsSpaceChar(c) == c = " "

\* str.isdigit(): non-empty and every character a digit
IsDigit(s) == Len(s) > 0 /\ \A i \in 1..Len(s) : IsDigitChar(Char(s, i))

RECURSIVE LStrip(_)
LStrip(s) == IF Len(s) > 0 /\ IsSpaceChar(Char(s, 1)) THEN LStrip(Tail(s)) ELSE s

RECURSIVE RStrip(_)
RStrip(s) ==
    IF Len(s) > 0 /\ IsSpaceChar(Char(s, Len(s)))
    THEN RStrip(SubSeq(s, 1, Len(s) - 1))
    ELSE s

\* str.strip()
Strip(s) == RStrip(LStrip(s))

DigitValue(c) == CHOOSE d \in 0..9 : Char(Digits, d + 1) = c

\* value of a string of decimal digits, "_" separators skipped
RECURSIVE DigitsValue(_, _)
DigitsValue(s, acc) ==
    IF Len(s) = 0 THEN acc
    ELSE IF Char(s, 1) = "_" THEN DigitsValue(Tail(s), acc)
    ELSE DigitsValue(Tail(s), acc * 10 + DigitValue(Char(s, 1)))

\* the digit part of an int() literal: digits, single "_" only between digits
IsIntBody(s) ==
    /\ Len(s) > 0
    /\ IsDigitChar(Char(s, 1))
    /\ IsDigitChar(Char(s, Len(s)))
    /\ \A i \in 1..Len(s) : IsDigitChar(Char(s, i)) \/ Char(s, i) = "_"
    /\ \A i \in 1..(Len(s) - 1) : ~(Char(s, i) = "_" /\ Char(s, i + 1) = "_")

\* int(s): [ok |-> TRUE, value |-> n], or [ok |-> FALSE] for ValueError.
\* int() strips whitespace and takes an optional sign.
ParseInt(s) ==
    LET t    == Strip(s)
        sign == IF Len(t) > 0 /\ Char(t, 1) \in {"+", "-"} THEN Char(t, 1) ELSE ""
        body == IF sign = "" THEN t ELSE Tail(t)
    IN  IF IsIntBody(body)
        THEN [ok |-> TRUE,
              value |-> IF sign = "-" THEN 0 - DigitsValue(body, 0)
                        ELSE DigitsValue(body, 0)]
        ELSE [ok |-> FALSE]

UpperLetters == "ABCDEFGHIJKLMNOPQRSTUVWXYZ"
LowerLetters == "abcdefghijklmnopqrstuvwxyz"

LowerChar(c) ==
    IF InStr(c, UpperLetters)
    THEN Char(LowerLetters, CHOOSE i \in 1..26 : Char(UpperLetters, i) = c)
    ELSE c

\* str.lower()
RECURSIVE Lower(_)
Lower(s) == IF Len(s) = 0 THEN "" ELSE LowerChar(Char(s, 1)) \o Lower(Tail(s))

\* str.replace(" ", "_")
RECURSIVE ReplaceSpaces(_)
ReplaceSpaces(s) ==
    IF Len(s) = 0 THEN ""
    ELSE (IF Char(s, 1) = " " THEN "_" ELSE Char(s, 1)) \o ReplaceSpaces(Tail(s))

\* "%02d"
Pad2(n) == IF n < 10 THEN "0" \o ToString(n) ELSE ToString(n)

\* "%04d"
Pad4(n) ==
    IF n < 10 THEN "000" \o ToString(n)
    ELSE IF n < 100 THEN "00" \o ToString(n)
    ELSE IF n < 1000 THEN "0" \o ToString(n)
    ELSE ToString(n)

---------------------------------------------------------------------------
(* datetime: the proleptic Gregorian calendar *)

IsLeap(y) == y % 4 = 0 /\ (y % 100 # 0 \/ y % 400 = 0)

DaysInMonth(y, m) ==
    IF m = 2 THEN (IF IsLeap(y) THEN 29 ELSE 28)
    ELSE IF m \in {4, 6, 9, 11} THEN 30 ELSE 31

RECURSIVE DaysBeforeMonth(_, _)
DaysBeforeMonth(y, m) ==
    IF m = 1 THEN 0 ELSE DaysBeforeMonth(y, m - 1) + DaysInMonth(y, m - 1)

DaysBeforeYear(y) ==
    (y - 1) * 365 + ((y - 1) \div 4) - ((y - 1) \div 100) + ((y - 1) \div 400)

\* datetime(y, m, d).toordinal()
Ymd2Ord(y, m, d) == DaysBeforeYear(y) + DaysBeforeMonth(y, m) + d

\* datetime.fromordinal(n) as [y, m, d]: the 400/100/4/1-year cycle
\* decomposition of CPython's _ord2ymd
Ord2Ymd(n) ==
    LET n0   == n - 1
        n400 == n0 \div 146097
        r400 == n0 % 146097
        n100 == r400 \div 36524
        r100 == r400 % 36524
        n4   == r100 \div 1461
        r4   == r100 % 1461
        n1   == r4 \div 365
        r1   == r4 % 365
        y    == n400 * 400 + 1 + n100 * 100 + n4 * 4 + n1
    IN  IF n1 = 4 \/ n100 = 4
        THEN [y |-> y - 1, m |-> 12, d |-> 31]
        ELSE LET m == CHOOSE k \in 1..12 :
                          /\ DaysBeforeMonth(y, k) <= r1
                          /\ r1 < DaysBeforeMonth(y, k) + DaysInMonth(y, k)
             IN  [y |-> y, m |-> m, d |-> r1 - DaysBeforeMonth(y, m) + 1]

\* dt.strftime('%d<sep>%m<sep>%Y')
StrfDMY(n, sep) ==
    LET t == Ord2Ymd(n) IN Pad2(t.d) \o sep \o Pad2(t.m) \o sep \o Pad4(t.y)

\* dt.isoformat(), the date part
IsoFormat(n) ==
    LET t == Ord2Ymd(n) IN Pad4(t.y) \o "-" \o Pad2(t.m) \o "-" \o Pad2(t.d)

\* position of the first "/" of s at or after i, 0 if none
RECURSIVE FindSlash(_, _)
FindSlash(s, i) ==
    IF i > Len(s) THEN 0
    ELSE IF Char(s, i) = "/" THEN i
    ELSE FindSlash(s, i + 1)

\* datetime.strptime(s, '%d/%m/%Y').toordinal()
StrpDMY(s) ==
    LET p1 == FindSlash(s, 1)
        p2 == FindSlash(s, p1 + 1)
        d  == DigitsValue(SubSeq(s, 1, p1 - 1), 0)
        m  == DigitsValue(SubSeq(s, p1 + 1, p2 - 1), 0)
        y  == DigitsValue(SubSeq(s, p2 + 1, Len(s)), 0)
    IN  Ymd2Ord(y, m, d)

---------------------------------------------------------------------------
(* scraper.py: CourtDataFetcher, the parts that touch no browser *)

\* get_case_types() with the second code a copy of the first
get_case_types_dup ==
    << [value |-> "CRL.A",       label |-> "CRL.A (Criminal Appeal)"],
       [value |-> "CRL.A",       label |-> "CRL.M.C (Criminal Misc.)"],
       [value |-> "W.P.(C)",     label |-> "W.P.(C) (Writ Petition Civil)"],
       [value |-> "W.P.(CRL)",   label |-> "W.P.(CRL) (Writ Petition Criminal)"],
       [value |-> "C.M.",        label |-> "C.M. (Civil Misc.)"],
       [value |-> "FAO",         label |-> "FAO (First Appeal from Order)"],
       [value |-> "RFA",         label |-> "RFA (Regular First Appeal)"],
       [value |-> "CS(OS)",      label |-> "CS(OS) (Original Suit)"],
       [value |-> "CS(COMM)",    label |-> "CS(COMM) (Commercial Suit)"],
       [value |-> "CONT.CAS(C)", label |-> "CONT.CAS(C) (Contempt Case Civil)"],
       [value |-> "ARB.P.",      label |-> "ARB.P. (Arbitration Petition)"],
       [value |-> "I.A.",        label |-> "I.A. (Interlocutory Application)"],
       [value |-> "CRL.REV.P.",  label |-> "CRL.REV.P. (Criminal Revision Petition)"],
       [value |-> "BAIL APPLN.", label |-> "BAIL APPLN. (Bail Application)"],
       [value |-> "MAT.APP.",    label |-> "MAT.APP. (Matrimonial Appeal)"],
       [value |-> "EFA",         label |-> "EFA (Election First Appeal)"],
       [value |-> "LPA",         label |-> "LPA (Letters Patent Appeal)"] >>

\* get_case_types(): a fresh list of the same 17 {value, label} dicts
get_case_types ==
    << [value |-> "CRL.A",       label |-> "CRL.A (Criminal Appeal)"],
       [value |-> "CRL.M.C",     label |-> "CRL.M.C (Criminal Misc.)"],
       [value |-> "W.P.(C)",     label |-> "W.P.(C) (Writ Petition Civil)"],
       [value |-> "W.P.(CRL)",   label |-> "W.P.(CRL) (Writ Petition Criminal)"],
       [value |-> "C.M.",        label |-> "C.M. (Civil Misc.)"],
       [value |-> "FAO",         label |-> "FAO (First Appeal from Order)"],
       [value |-> "RFA",         label |-> "RFA (Regular First Appeal)"],
       [value |-> "CS(OS)",      label |-> "CS(OS) (Original Suit)"],
       [value |-> "CS(COMM)",    label |-> "CS(COMM) (Commercial Suit)"],
       [value |-> "CONT.CAS(C)", label |-> "CONT.CAS(C) (Contempt Case Civil)"],
       [value |-> "ARB.P.",      label |-> "ARB.P. (Arbitration Petition)"],
       [value |-> "I.A.",        label |-> "I.A. (Interlocutory Application)"],
       [value |-> "CRL.REV.P.",  label |-> "CRL.REV.P. (Criminal Revision Petition)"],
       [value |-> "BAIL APPLN.", label |-> "BAIL APPLN. (Bail Application)"],
       [value |-> "MAT.APP.",    label |-> "MAT.APP. (Matrimonial Appeal)"],
       [value |-> "EFA",         label |-> "EFA (Election First Appeal)"],
       [value |-> "LPA",         label |-> "LPA (Letters Patent Appeal)"] >>

\* the descriptions dict of _get_case_type_description, as (key, value) pairs
descriptions ==
    << <<"CRL.A", "Criminal Appeal">>,
       <<"CRL.M.C", "Criminal Miscellaneous">>,
       <<"W.P.(C)", "Writ Petition (Civil)">>,
       <<"W.P.(CRL)", "Writ Petition (Criminal)">>,
       <<"C.M.", "Civil Miscellaneous">>,
       <<"FAO", "First Appeal from Order">>,
       <<"RFA", "Regular First Appeal">>,
       <<"CS(OS)", "Civil Suit (Original Side)">>,
       <<"CS(COMM)", "Commercial Suit">>,
       <<"CONT.CAS(C)", "Contempt Case (Civil)">>,
       <<"ARB.P.", "Arbitration Petition">>,
       <<"I.A.", "Interlocutory Application">>,
       <<"CRL.REV.P.", "Criminal Revision Petition">>,
       <<"BAIL APPLN.", "Bail Application">>,
       <<"MAT.APP.", "Matrimonial Appeal">>,
       <<"EFA", "Election First Appeal">>,
       <<"LPA", "Letters Patent Appeal">> >>

\* descriptions.get(case_type, case_type)
get_case_type_description(case_type) ==
    IF \E i \in 1..Len(descriptions) : descriptions[i][1] = case_type
    THEN descriptions[CHOOSE i \in 1..Len(descriptions) : descriptions[i][1] = case_type][2]
    ELSE case_type

\* validate_case_inputs(): the list of error messages
validate_case_inputs(case_type, case_number, filing_year) ==
    LET valid_types  == {get_case_types[i].value : i \in 1..Len(get_case_types)}
        year         == ParseInt(filing_year)
        current_year == Ord2Ymd(now).y
    IN  (IF case_type \notin valid_types THEN <<"Invalid case type">> ELSE <<>>)
        \o (IF ~IsDigit(case_number)
            THEN <<"Case number must contain only digits">> ELSE <<>>)
        \o (IF Len(case_number) > 10 THEN <<"Case number too long">> ELSE <<>>)
        \o (IF ~year.ok THEN <<"Invalid filing year">>
            ELSE IF year.value < 2000 \/ year.value > current_year
            THEN <<"Filing year must be between 2000 and " \o ToString(current_year)>>
            ELSE <<>>)

\* the composed case number with the number and the year swapped
compose_case_number_swapped(case_type, case_number, filing_year) ==
    case_type \o " " \o filing_year \o "/" \o case_number

\* the composed case number f"{case_type} {case_number}/{filing_year}"
compose_case_number(case_type, case_number, filing_year) ==
    case_type \o " " \o case_number \o "/" \o filing_year

\* the placeholder every field of parse_case_details holds
Placeholder == "Extracted from HTML"

\* the fields the results page is read for (spec 4.4); soup is modelled as the
\* set of these fields the page holds
RequiredFields ==
    {"petitioner", "respondent", "filing_date", "next_hearing", "status", "judge",
     "orders", "case_history"}

\* parse_case_details(): the try body reads nothing from soup (the selectors
\* are comments) and cannot raise; the mock fallback of its handler is dead
parse_case_details(soup, case_type, case_number, filing_year) ==
    [case_number  |-> compose_case_number(case_type, case_number, filing_year),
     parties      |-> [petitioner |-> Placeholder, respondent |-> Placeholder],
     filing_date  |-> Placeholder,
     next_hearing |-> Placeholder,
     status       |-> Placeholder,
     judge        |-> Placeholder,
     orders       |-> <<>>,
     case_history |-> <<>>]

(* the random module: random.randint(lo, hi) and random.choice(list) whose  *)
(* value no claim depends on are derived from one draw "pick"; the draws    *)
(* that shape dates, counts and orderings are drawn separately (RandomDraws) *)
RandIntBy(lo, hi, k) == lo + (k % (hi - lo + 1))

Choice(list, k) == list[(k % Len(list)) + 1]

petitioner_names ==
    << "Rajesh Kumar Singh", "Priya Sharma", "Amit Patel", "Sunita Gupta",
       "Vikas Agarwal", "Neha Verma", "Suresh Yadav", "Kavita Singh" >>

respondent_entities ==
    << "State of Delhi", "Union of India", "Delhi Development Authority",
       "Municipal Corporation of Delhi", "Delhi Police", "Income Tax Department",
       "Central Bureau of Investigation", "Enforcement Directorate" >>

judges ==
    << "Hon'ble Mr. Justice Rajiv Shakdher",
       "Hon'ble Ms. Justice Prathiba M. Singh",
       "Hon'ble Mr. Justice Suresh Kumar Kait",
       "Hon'ble Mr. Justice Navin Chawla",
       "Hon'ble Ms. Justice Mini Pushkarna" >>

case_statuses ==
    << "Listed for hearing", "Pending for orders", "Under consideration",
       "Adjourned", "Notice issued", "Arguments concluded" >>

order_types == << "Order", "Notice", "Judgment", "Interim Order", "Direction" >>

order_remarks ==
    << "Matter adjourned", "Notice issued", "Arguments heard",
       "Interim relief granted", "Status report called" >>

history_events ==
    << "First hearing scheduled", "Notice issued to respondent",
       "Counter affidavit filed", "Rejoinder filed", "Arguments heard",
       "Reserved for orders", "Interim order passed" >>

urgencies == << "Normal", "Urgent", "Very Urgent" >>

\* the order dict built by iteration i (0-based) of _generate_mock_orders
mock_order(i, case_number, filing_year, rnd) ==
    LET order_date == now - rnd.orderDays[i + 1]
    IN  [date        |-> StrfDMY(order_date, "/"),
         type        |-> Choice(order_types, rnd.pick + i),
         description |-> "Order dated " \o StrfDMY(order_date, ".") \o " - "
                             \o Choice(order_remarks, rnd.pick + i),
         pdf_link    |-> "/download/" \o ReplaceSpaces(Lower(order_types[i + 1]))
                             \o "_" \o case_number \o "_" \o filing_year
                             \o "_" \o ToString(i + 1) \o ".pdf",
         pages       |-> RandIntBy(1, 15, rnd.pick + i)]

\* list.insert into a list sorted by descending key, after every element whose
\* key is not smaller: what a stable sort with reverse=True does to equal keys
RECURSIVE insert_desc(_, _)
insert_desc(sorted, o) ==
    IF sorted = <<>> THEN <<o>>
    ELSE IF StrpDMY(Head(sorted).date) >= StrpDMY(o.date)
         THEN <<Head(sorted)>> \o insert_desc(Tail(sorted), o)
         ELSE <<o>> \o sorted

\* sorted() without reverse=True: oldest first
RECURSIVE sorted_orders_ascending(_)
sorted_orders_ascending(orders) ==
    IF orders = <<>> THEN <<>>
    ELSE LET rest == sorted_orders_ascending(Tail(orders))
             o    == Head(orders)
             le   == SelectSeq(rest, LAMBDA x : StrpDMY(x.date) < StrpDMY(o.date))
             gt   == SelectSeq(rest, LAMBDA x : StrpDMY(x.date) >= StrpDMY(o.date))
         IN  le \o <<o>> \o gt

\* sorted(orders, key=lambda x: datetime.strptime(x['date'], '%d/%m/%Y'), reverse=True)
RECURSIVE sorted_orders(_)
sorted_orders(orders) ==
    IF orders = <<>> THEN <<>>
    ELSE insert_desc(sorted_orders(SubSeq(orders, 1, Len(orders) - 1)),
                     orders[Len(orders)])

\* _generate_mock_orders()
generate_mock_orders(case_number, filing_year, rnd) ==
    sorted_orders([k \in 1..rnd.nOrders |->
                      mock_order(k - 1, case_number, filing_year, rnd)])

\* the loop of _generate_mock_history stepping backwards in time
RECURSIVE history_from_backwards(_, _, _)
history_from_backwards(k, current_date, rnd) ==
    IF k > rnd.nEvents THEN <<>>
    ELSE LET next_date == current_date - rnd.steps[k]
         IN  (IF next_date <= now
              THEN <<[date |-> StrfDMY(next_date, "/"), event |-> history_events[k]]>>
              ELSE <<>>)
             \o history_from_backwards(k + 1, next_date, rnd)

\* the loop of _generate_mock_history from event k on: current_date is the date
\* before the step of event k
RECURSIVE history_from(_, _, _)
history_from(k, current_date, rnd) ==
    IF k > rnd.nEvents THEN <<>>
    ELSE LET next_date == current_date + rnd.steps[k]
         IN  (IF next_date <= now
              THEN <<[date |-> StrfDMY(next_date, "/"), event |-> history_events[k]]>>
              ELSE <<>>)
             \o history_from(k + 1, next_date, rnd)

\* _generate_mock_history()
generate_mock_history(filing_date, rnd) ==
    <<[date |-> StrfDMY(filing_date, "/"), event |-> "Case filed and registered"]>>
        \o history_from(1, filing_date, rnd)

\* _create_mock_case_data(): [ok |-> TRUE, data |-> the dict], or
\* [ok |-> FALSE, error |-> str(e)] when line 268 raises ValueError: int() of a
\* non-number, or datetime() of a year outside MINYEAR..MAXYEAR
create_mock_case_data(case_type, case_number, filing_year, rnd) ==
    LET year == ParseInt(filing_year)
    IN  IF ~year.ok
        THEN [ok |-> FALSE,
              error |-> "invalid literal for int() with base 10: '" \o filing_year \o "'"]
        ELSE IF year.value < 1 \/ year.value > 9999
        THEN [ok |-> FALSE,
              error |-> "year " \o ToString(year.value) \o " is out of range"]
        ELSE LET filing_date  == Ymd2Ord(year.value, rnd.month, rnd.day)
                 next_hearing == now + RandIntBy(7, 60, rnd.pick)
             IN [ok |-> TRUE,
                 data |->
                   [case_number  |-> compose_case_number(case_type, case_number, filing_year),
                    parties      |->
                        [petitioner |-> Choice(petitioner_names, rnd.pick),
                         respondent |-> Choice(respondent_entities, rnd.pick) \o " & Ors."],
                    filing_date  |-> StrfDMY(filing_date, "/"),
                    next_hearing |-> StrfDMY(next_hearing, "/"),
                    status       |-> Choice(case_statuses, rnd.pick),
                    judge        |-> Choice(judges, rnd.pick),
                    court_number |-> "Court No. " \o ToString(RandIntBy(1, 15, rnd.pick)),
                    orders       |-> generate_mock_orders(case_number, filing_year, rnd),
                    case_history |-> generate_mock_history(filing_date, rnd),
                    case_type_full |-> get_case_type_description(case_type),
                    urgency      |-> Choice(urgencies, rnd.pick),
                    estimated_duration |->
                        ToString(RandIntBy(15, 120, rnd.pick)) \o " minutes"]]

\* fetch_case_data(): the returned dict.  The call of fetch_case_data_real is
\* a comment (line 245): the mock branch is the only one.
fetch_case_data(case_type, case_number, filing_year, rnd) ==
    LET m == create_mock_case_data(case_type, case_number, filing_year, rnd)
    IN  IF m.ok
        THEN [success   |-> TRUE,
              data      |-> m.data,
              source    |-> "mock_data",
              timestamp |-> IsoFormat(now)]
        ELSE [success |-> FALSE, error |-> m.error]

---------------------------------------------------------------------------
(* app.py: the endpoints *)

\* the value of a JSON field: a string, a number, or no such key
Str(text) == [kind |-> "str", text |-> text]
Num(text) == [kind |-> "num", text |-> text]
Absent    == [kind |-> "absent", text |-> ""]

\* data.get(key, '').strip() of a field that is not a number
field_text(f) == IF f.kind = "str" THEN Strip(f.text) ELSE ""

\* the validation without the lower bound of the year
validation_error_no_lower_bound(case_type, case_number, filing_year) ==
    LET year         == ParseInt(filing_year)
        current_year == Ord2Ymd(now).y
    IN  IF case_type = "" \/ case_number = "" \/ filing_year = ""
        THEN "All fields are required"
        ELSE IF ~year.ok \/ year.value > current_year
        THEN "Filing year must be between 2000 and " \o ToString(current_year)
        ELSE IF ~IsDigit(case_number) \/ Len(case_number) > 10
        THEN "Case number must be a valid number"
        ELSE ""

\* lines 133-156 on the stripped fields: "" when every check passes, else the
\* error message of the 400 response
validation_error(case_type, case_number, filing_year) ==
    LET year         == ParseInt(filing_year)
        current_year == Ord2Ymd(now).y
    IN  IF case_type = "" \/ case_number = "" \/ filing_year = ""
        THEN "All fields are required"
        ELSE IF ~year.ok \/ year.value < 2000 \/ year.value > current_year
        THEN "Filing year must be between 2000 and " \o ToString(current_year)
        ELSE IF ~IsDigit(case_number) \/ Len(case_number) > 10
        THEN "Case number must be a valid number"
        ELSE ""

\* the row log_query() inserts (the response_data column is left out)
log_row(case_type, case_number, filing_year, success) ==
    [case_type       |-> case_type,
     case_number     |-> case_number,
     filing_year     |-> filing_year,
     query_timestamp |-> IsoFormat(now),
     success         |-> success]

\* log_query() without the commit: the insert is rolled back when the
\* connection closes
log_query_uncommitted(case_type, case_number, filing_year, success, db_ok) == <<>>

\* log_query(): the rows it adds to query_logs.  The connect, the insert and
\* the commit are inside one try whose handler only writes to the logger, so
\* when the database fails (db_ok = FALSE: locked, read-only, disk full) no
\* row is added and the caller is not told
log_query(case_type, case_number, filing_year, success, db_ok) ==
    IF db_ok
    THEN <<log_row(case_type, case_number, filing_year, success)>>
    ELSE <<>>

\* fetch_case(): the response, with the arguments of every call of
\* fetcher.fetch_case_data it made (fetched), the rows it logged (logged) and
\* whether the database worked during the request (db_ok).
\* A body that is not a JSON object, or a field that is a JSON number (no
\* .strip()), raises inside the try: the handler of line 169 answers 500.
fetch_case(req, rnd, db_ok) ==
    LET case_type   == field_text(req.case_type)
        case_number == field_text(req.case_number)
        filing_year == field_text(req.filing_year)
        error       == validation_error(case_type, case_number, filing_year)
        result      == fetch_case_data(case_type, case_number, filing_year, rnd)
    IN  IF ~req.json \/ "num" \in {req.case_type.kind, req.case_number.kind,
                                    req.filing_year.kind}
        THEN [kind |-> "fetch-case", req |-> req, status |-> 500,
              body |-> [success |-> FALSE, error |-> "Internal server error"],
              fetched |-> <<>>, logged |-> <<>>, db_ok |-> db_ok]
        ELSE IF error # ""
        THEN [kind |-> "fetch-case", req |-> req, status |-> 400,
              body |-> [success |-> FALSE, error |-> error],
              fetched |-> <<>>, logged |-> <<>>, db_ok |-> db_ok]
        ELSE [kind |-> "fetch-case", req |-> req,
              status |-> IF result.success THEN 200 ELSE 500,
              body |-> result,
              fetched |-> << <<case_type, case_number, filing_year>> >>,
              logged |-> log_query(case_type, case_number, filing_year,
                                   result.success, db_ok),
              db_ok |-> db_ok]

---------------------------------------------------------------------------
(* Inputs *)

Idle == [kind |-> "idle"]

\* the day the clock starts at: the last day of a year, so that a tick
\* changes current_year
StartDay == Ymd2Ord(2023, 12, 31)

\* the random draws of one _create_mock_case_data: the filing month and day
\* (randint(1, 12), randint(1, 28)), the number of orders (randint(1, 4)) and
\* their ages in days (randint(7, 365)), the number of history events
\* (randint(2, 6)) and their steps in days (randint(15, 45)), and pick
RandomDraws ==
    [month     : {1, 12},
     day       : {1, 28},
     nOrders   : 1..4,
     orderDays : {<<7, 7, 7, 7>>, <<7, 365, 8, 365>>, <<365, 7, 365, 8>>},
     nEvents   : {2, 6},
     steps     : {<<15, 15, 15, 15, 15, 15>>, <<45, 45, 45, 45, 45, 45>>},
     pick      : 0..MaxPick]

\* the draws the endpoint is exercised with
EndpointDraws ==
    {r \in RandomDraws : r.day = 1 /\ r.nOrders = 4 /\ r.orderDays[1] = 7
                          /\ r.nEvents = 6 /\ r.steps[1] = 15 /\ r.pick = 0}

\* arguments of the fetcher's methods called directly
ArgTypes   == {"W.P.(C)", "XYZ"}
ArgNumbers == {"1234", "12a4"}
ArgYears   == {"2023", "2024", "1999", "99999", "abcd"}

\* results pages: every field present, or exactly one field missing
Pages == {RequiredFields} \cup {RequiredFields \ {f} : f \in RequiredFields}

\* request bodies of POST /api/fetch-case
Requests ==
    [json        : {TRUE},
     case_type   : {Str("W.P.(C)"), Str(" LPA "), Str("XYZ"), Str("")},
     case_number : {Str("1234"), Str("12a4"), Str("12345678901"), Absent},
     filing_year : {Str("2023"), Str("2024"), Str("1999"), Str("abcd"), Str(""),
                    Num("1999")}]
    \cup {[json |-> FALSE, case_type |-> Absent, case_number |-> Absent,
           filing_year |-> Absent]}

\* __init__, lines 28-29: one requests.Session per fetcher, made when the
\* fetcher is constructed and given browser-like headers by setup_session;
\* no method closes it, and fetch_case_data_real downloads with the
\* module-level requests.get, not with it
create_session == [open |-> TRUE, owner |-> "fetcher", headers |-> "browser"]

\* the calls of fetch_case_data_real that can be in flight on the one fetcher
\* of app.py:99
Calls == 1..NumCalls

\* the frame of a call that has not started
IdleFrame ==
    [pc             |-> "idle",
     driver         |-> "none",     \* none | open | quit
     captcha_seen   |-> FALSE,      \* line 155 found a CAPTCHA image
     solved         |-> FALSE,      \* line 167 has returned
     captcha_solution |-> "",       \* what solve_captcha returned
     captcha_keys   |-> <<>>,       \* every text sent to the CAPTCHA input
     submit_reached |-> FALSE,      \* the call got to line 182
     file_written   |-> FALSE,      \* line 164 wrote the image to the file
     failed         |-> "none",     \* the component that failed
     outcome        |-> [success |-> FALSE, error |-> ""]]

---------------------------------------------------------------------------
(* State machine: one request or one method call at a time *)

Init ==
    /\ now = StartDay
    /\ query_logs = <<>>
    /\ http = Idle
    /\ ret = Idle
    /\ call = [c \in Calls |-> IdleFrame]
    /\ captcha_file = [exists |-> FALSE, image |-> 0]
    /\ session = create_session

Quiet == http = Idle /\ ret = Idle

\* the clock: a day passes
Tick ==
    /\ Quiet
    /\ now < StartDay + MaxTicks
    /\ now' = now + 1
    /\ UNCHANGED <<query_logs, http, ret, call, captcha_file, session>>

\* POST /api/fetch-case
ApiFetchCase ==
    /\ Quiet
    /\ Len(query_logs) < MaxLogs
    /\ \E req \in Requests, rnd \in EndpointDraws, db_ok \in BOOLEAN :
          LET resp == fetch_case(req, rnd, db_ok)
          IN  /\ http' = resp
              /\ query_logs' = query_logs \o resp.logged
    /\ UNCHANGED <<now, ret, call, captcha_file, session>>

\* GET /api/case-types
ApiCaseTypes ==
    /\ Quiet
    /\ http' = [kind |-> "case-types", status |-> 200,
                body |-> [success |-> TRUE, data |-> get_case_types]]
    /\ UNCHANGED <<now, query_logs, ret, call, captcha_file, session>>

\* the client receives the response
Deliver ==
    /\ http # Idle
    /\ http' = Idle
    /\ UNCHANGED <<now, query_logs, ret, call, captcha_file, session>>

\* fetcher.fetch_case_data(case_type, case_number, filing_year)
CallFetchCaseData ==
    /\ Quiet
    /\ \E t \in ArgTypes, n \in ArgNumbers, y \in ArgYears, rnd \in RandomDraws :
          ret' = [kind |-> "fetch_case_data", args |-> <<t, n, y>>, rnd |-> rnd,
                  outcome |-> fetch_case_data(t, n, y, rnd)]
    /\ UNCHANGED <<now, query_logs, http, call, captcha_file, session>>

\* fetcher.parse_case_details(soup, case_type, case_number, filing_year)
CallParseCaseDetails ==
    /\ Quiet
    /\ \E soup \in Pages, t \in ArgTypes, n \in ArgNumbers, y \in ArgYears :
          ret' = [kind |-> "parse_case_details", args |-> <<t, n, y>>, soup |-> soup,
                  record |-> parse_case_details(soup, t, n, y)]
    /\ UNCHANGED <<now, query_logs, http, call, captcha_file, session>>

\* fetcher.validate_case_inputs(case_type, case_number, filing_year)
CallValidateCaseInputs ==
    /\ Quiet
    /\ \E t \in ArgTypes, n \in ArgNumbers, y \in ArgYears :
          ret' = [kind |-> "validate_case_inputs", args |-> <<t, n, y>>,
                  errors |-> validate_case_inputs(t, n, y)]
    /\ UNCHANGED <<now, query_logs, http, call, captcha_file, session>>

\* fetcher.get_case_types()
CallGetCaseTypes ==
    /\ Quiet
    /\ ret' = [kind |-> "get_case_types", types |-> get_case_types]
    /\ UNCHANGED <<now, query_logs, http, call, captcha_file, session>>

\* the method returns to its caller
Return ==
    /\ ret # Idle
    /\ ret' = Idle
    /\ UNCHANGED <<now, query_logs, http, call, captcha_file, session>>

\* the web application
Next == Tick \/ ApiFetchCase \/ ApiCaseTypes \/ Deliver

Spec == Init /\ [][Next]_vars

\* the fetcher's methods, called directly
NextFetcher ==
    \/ Tick
    \/ CallFetchCaseData
    \/ CallParseCaseDetails
    \/ CallValidateCaseInputs
    \/ CallGetCaseTypes
    \/ Return

SpecFetcher == Init /\ [][NextFetcher]_vars

---------------------------------------------------------------------------
(* scraper.py: fetch_case_data_real, one action per step of the call *)

\* the text on the CAPTCHA image served to call c
CaptchaText(c) == "AB" \o ToString(c)

\* what pytesseract.image_to_string() can read from the image of call c: the
\* text with surrounding whitespace, or whitespace alone
OcrOutputs(c) == {" " \o CaptchaText(c) \o " ", "  "}

\* the dicts of lines 129, 175, 197 and 200
failure(error) == [success |-> FALSE, error |-> error]

\* a return from inside the try: the outcome, after the finally clause has
\* run driver.quit()
Returned(f, component, outcome) ==
    [f EXCEPT !.pc = "returned", !.driver = "quit", !.failed = component,
              !.outcome = outcome]

\* except TimeoutException (line 196)
TimedOut(f, component) ==
    Returned(f, component, failure("Timeout waiting for page to load"))

\* a handler that answers with mock data, as parse_case_details' handler does
Raised_as_mock_success(f, component, exception) ==
    Returned(f, component, [success |-> TRUE, data |-> "mock"])

\* except Exception as e (line 198): error is str(e), here the exception's name
Raised(f, component, exception) == Returned(f, component, failure(exception))

\* solve_captcha(): OCR when the file exists (raw is its output, "raise" when
\* Image.open or pytesseract raises: an empty or broken image); with no file
\* both the service branch (a pass) and the fallback return ""
solve_captcha(file_exists, raw) ==
    IF file_exists
    THEN (IF raw = "raise" THEN "" ELSE Strip(raw))
    ELSE ""

\* fetch_case_data_real is called
RealStart(c) ==
    /\ call[c].pc = "idle"
    /\ call' = [call EXCEPT ![c] = [IdleFrame EXCEPT !.pc = "setup_webdriver"]]
    /\ UNCHANGED <<now, query_logs, http, ret, captcha_file, session>>

\* lines 127-129: setup_webdriver() returns a driver, or None when
\* webdriver.Chrome() raises (no browser) or when execute_script raises (the
\* browser it started stays open and is never quit)
SetupWebdriver(c) ==
    /\ call[c].pc = "setup_webdriver"
    /\ \/ call' = [call EXCEPT ![c] = [@ EXCEPT !.pc = "get", !.driver = "open"]]
       \/ \E started \in {"none", "open"} :
             call' = [call EXCEPT ![c] =
                        [@ EXCEPT !.pc = "returned", !.driver = started,
                                  !.failed = "webdriver",
                                  !.outcome = failure("Failed to initialize web driver")]]
    /\ UNCHANGED <<now, query_logs, http, ret, captcha_file, session>>

\* line 133: driver.get(case_status_url)
DriverGet(c) ==
    /\ call[c].pc = "get"
    /\ \/ call' = [call EXCEPT ![c] = [@ EXCEPT !.pc = "wait_form"]]
       \/ call' = [call EXCEPT ![c] = TimedOut(@, "navigation")]
       \/ call' = [call EXCEPT ![c] = Raised(@, "navigation", "WebDriverException")]
    /\ UNCHANGED <<now, query_logs, http, ret, captcha_file, session>>

\* lines 136-138: WebDriverWait(driver, 10) for the form
WaitForm(c) ==
    /\ call[c].pc = "wait_form"
    /\ \/ call' = [call EXCEPT ![c] = [@ EXCEPT !.pc = "fill_form"]]
       \/ call' = [call EXCEPT ![c] = TimedOut(@, "navigation")]
    /\ UNCHANGED <<now, query_logs, http, ret, captcha_file, session>>

\* lines 141-150: the three form fields are found and filled
FillForm(c) ==
    /\ call[c].pc = "fill_form"
    /\ \/ call' = [call EXCEPT ![c] = [@ EXCEPT !.pc = "find_captcha"]]
       \/ call' = [call EXCEPT ![c] = Raised(@, "navigation", "NoSuchElementException")]
    /\ UNCHANGED <<now, query_logs, http, ret, captcha_file, session>>

\* lines 153-155: the images of the page are searched for a CAPTCHA
FindCaptcha(c) ==
    /\ call[c].pc = "find_captcha"
    /\ \/ call' = [call EXCEPT ![c] = [@ EXCEPT !.pc = "submit"]]
       \/ call' = [call EXCEPT ![c] = [@ EXCEPT !.pc = "open_file", !.captcha_seen = TRUE]]
    /\ UNCHANGED <<now, query_logs, http, ret, captcha_file, session>>

\* lines 162-163: open("captcha_temp.png", 'wb') creates or truncates the file
OpenCaptchaFile(c) ==
    /\ call[c].pc = "open_file"
    /\ captcha_file' = [exists |-> TRUE, image |-> 0]
    /\ call' = [call EXCEPT ![c] = [@ EXCEPT !.pc = "download"]]
    /\ UNCHANGED <<now, query_logs, http, ret, session>>

\* line 164: requests.get(captcha_url).content is written to the open file; a
\* file unlinked in the meantime stays unlinked.  The get is given no timeout,
\* so requests waits without limit for a server that accepts the connection
\* and sends nothing: the call then stays in the download
DownloadCaptcha(c) ==
    /\ call[c].pc = "download"
    /\ \/ /\ call' = [call EXCEPT ![c] =
                          [@ EXCEPT !.pc = "solve", !.file_written = TRUE]]
          /\ captcha_file' = IF captcha_file.exists
                             THEN [exists |-> TRUE, image |-> c]
                             ELSE captcha_file
       \/ /\ call' = [call EXCEPT ![c] = Raised(@, "captcha", "ConnectionError")]
          /\ UNCHANGED captcha_file
       \/ /\ call' = [call EXCEPT ![c] = [@ EXCEPT !.pc = "blocked"]]
          /\ UNCHANGED captcha_file
    /\ UNCHANGED <<now, query_logs, http, ret, session>>

\* line 169 without the test: whatever was solved is typed in
AfterSolve_unchecked(f, solution) ==
    [f EXCEPT !.pc = "fill_captcha", !.solved = TRUE, !.captcha_solution = solution]

\* the step after line 167, for a solution: line 169 takes the if branch for a
\* non-empty string and otherwise returns the failure of line 175
AfterSolve(f, solution) ==
    IF solution # ""
    THEN [f EXCEPT !.pc = "fill_captcha", !.solved = TRUE,
                   !.captcha_solution = solution]
    ELSE Returned([f EXCEPT !.solved = TRUE, !.captcha_solution = solution],
                  "captcha", failure("CAPTCHA solving failed"))

\* lines 167-175: solve_captcha reads the file as it is now
SolveCaptcha(c) ==
    /\ call[c].pc = "solve"
    /\ \E raw \in (IF captcha_file.exists /\ captcha_file.image # 0
                   THEN OcrOutputs(captcha_file.image) \cup {"raise"}
                   ELSE {"raise"}) :
          call' = [call EXCEPT ![c] =
                     AfterSolve(@, solve_captcha(captcha_file.exists, raw))]
    /\ UNCHANGED <<now, query_logs, http, ret, captcha_file, session>>

\* lines 170-171: the solution is typed into the CAPTCHA input
FillCaptcha(c) ==
    /\ call[c].pc = "fill_captcha"
    /\ \/ call' = [call EXCEPT ![c] =
                     [@ EXCEPT !.pc = "remove_file",
                               !.captcha_keys = Append(@, call[c].captcha_solution)]]
       \/ call' = [call EXCEPT ![c] = Raised(@, "navigation", "NoSuchElementException")]
    /\ UNCHANGED <<now, query_logs, http, ret, captcha_file, session>>

\* line 178: os.remove(captcha_path), FileNotFoundError when it is gone
RemoveCaptchaFile(c) ==
    /\ call[c].pc = "remove_file"
    /\ IF captcha_file.exists
       THEN /\ captcha_file' = [exists |-> FALSE, image |-> 0]
            /\ call' = [call EXCEPT ![c] = [@ EXCEPT !.pc = "submit"]]
       ELSE /\ call' = [call EXCEPT ![c] = Raised(@, "captcha", "FileNotFoundError")]
            /\ UNCHANGED captcha_file
    /\ UNCHANGED <<now, query_logs, http, ret, session>>

\* line 182: selenium's By has ID, XPATH, LINK_TEXT, PARTIAL_LINK_TEXT, NAME,
\* TAG_NAME, CLASS_NAME and CSS_SELECTOR and no TYPE: evaluating By.TYPE raises
\* AttributeError before find_element runs, and line 198 catches it.  Lines
\* 183-194 (click, wait for the results, parse, the success return) are never
\* executed.
Submit(c) ==
    /\ call[c].pc = "submit"
    /\ call' = [call EXCEPT ![c] =
                  Raised([@ EXCEPT !.submit_reached = TRUE], "navigation",
                         "AttributeError")]
    /\ UNCHANGED <<now, query_logs, http, ret, captcha_file, session>>

\* the caller takes the outcome
RealReturn(c) ==
    /\ call[c].pc = "returned"
    /\ call' = [call EXCEPT ![c] = IdleFrame]
    /\ UNCHANGED <<now, query_logs, http, ret, captcha_file, session>>

\* the steps call c can take
Step(c) ==
    \/ RealStart(c)
    \/ SetupWebdriver(c)
    \/ DriverGet(c)
    \/ WaitForm(c)
    \/ FillForm(c)
    \/ FindCaptcha(c)
    \/ OpenCaptchaFile(c)
    \/ DownloadCaptcha(c)
    \/ SolveCaptcha(c)
    \/ FillCaptcha(c)
    \/ RemoveCaptchaFile(c)
    \/ Submit(c)
    \/ RealReturn(c)

\* calls of fetch_case_data_real on one fetcher, interleaved step by step
NextReal == \E c \in Calls : Step(c)

SpecReal == Init /\ [][NextReal]_vars

---------------------------------------------------------------------------
(* Claims *)

\* the 17 case type codes, in the order the enumeration lists them
ExpectedCodes ==
    << "CRL.A", "CRL.M.C", "W.P.(C)", "W.P.(CRL)", "C.M.", "FAO", "RFA", "CS(OS)",
       "CS(COMM)", "CONT.CAS(C)", "ARB.P.", "I.A.", "CRL.REV.P.", "BAIL APPLN.",
       "MAT.APP.", "EFA", "LPA" >>

\* C1: every outcome a fetch returns, success or failure, carries a source tag
\* that is live or synthetic, and an outcome built from mock data is not
\* tagged live.  (Stated of fetch_case_data; violated: a success is tagged
\* "mock_data" and a failure carries no tag.)
C1_SourceTagLiveOrSynthetic ==
    ret.kind = "fetch_case_data" =>
        /\ "source" \in DOMAIN ret.outcome
        /\ ret.outcome.source \in {"live", "synthetic"}

\* the value a parsed record holds for a required field is empty or the
\* placeholder
HoldsPlaceholder(record, f) ==
    CASE f = "petitioner" -> record.parties.petitioner \in {"", Placeholder}
      [] f = "respondent" -> record.parties.respondent \in {"", Placeholder}
      [] f = "orders"       -> record.orders = <<>>
      [] f = "case_history" -> record.case_history = <<>>
      [] OTHER -> record[f] \in {"", Placeholder}

\* C2: for a results page missing a required field, parse_case_details does
\* not return a record holding an empty or placeholder value in that field.
C2_NoPlaceholderForMissingField ==
    ret.kind = "parse_case_details" =>
        \A f \in RequiredFields \ ret.soup : ~HoldsPlaceholder(ret.record, f)

C4_UnsolvedCaptchaNotSubmitted ==
    \A c \in Calls :
        /\ (call[c].captcha_seen /\ call[c].solved /\ call[c].captcha_solution = "") =>
               /\ call[c].pc = "returned"
               /\ call[c].outcome.success = FALSE
               /\ call[c].captcha_keys = <<>>
               /\ ~call[c].submit_reached
        /\ \A i \in 1..Len(call[c].captcha_keys) : call[c].captcha_keys[i] # ""

\* a call whose CAPTCHA was detected and not solved returned the failure
C4_Witness ==
    \E c \in Calls :
        /\ call[c].captcha_seen
        /\ call[c].solved
        /\ call[c].captcha_solution = ""
        /\ call[c].pc = "returned"
        /\ call[c].outcome = [success |-> FALSE, error |-> "CAPTCHA solving failed"]

\* C5: the arguments of every call of fetcher.fetch_case_data made by
\* POST /api/fetch-case are an all-digit case_number of at most 10 characters,
\* a filing_year that is an integer in 2000..current_year, and a case_type
\* that is one of the 17 codes.
C5_FetcherReachedOnlyWithValidQuery ==
    http.kind = "fetch-case" =>
        \A i \in 1..Len(http.fetched) :
            LET args == http.fetched[i]
                year == ParseInt(args[3])
            IN  /\ IsDigit(args[2]) /\ Len(args[2]) <= 10
                /\ year.ok /\ year.value >= 2000 /\ year.value <= Ord2Ymd(now).y
                /\ \E k \in 1..17 : ExpectedCodes[k] = args[1]

\* the filing_year of the request is not an integer in 2000..current_year
YearNotInRange(req) ==
    \/ req.filing_year.kind = "absent"
    \/ LET year == ParseInt(req.filing_year.text)
       IN  ~year.ok \/ year.value < 2000 \/ year.value > Ord2Ymd(now).y

BoundMessage == "Filing year must be between 2000 and " \o ToString(Ord2Ymd(now).y)

\* the request is a JSON object whose three fields are strings that are not
\* empty once stripped
AllFieldsGiven(req) ==
    /\ req.json
    /\ \A f \in {req.case_type, req.case_number, req.filing_year} :
           f.kind = "str" /\ Strip(f.text) # ""

\* the request is a JSON object whose fields, where given, are strings
StringFields(req) ==
    /\ req.json
    /\ \A f \in {req.case_type, req.case_number, req.filing_year} : f.kind # "num"

\* C6 as claimed: every request whose filing_year is not an integer in
\* 2000..current_year is rejected with the validation error that names the
\* bound, and fetch_case_data is not called.  (Stated of the requests that
\* are JSON objects of strings.)
C6_Original_AlwaysNamesBound ==
    (http.kind = "fetch-case" /\ StringFields(http.req) /\ YearNotInRange(http.req)) =>
        /\ http.status = 400
        /\ http.body.error = BoundMessage
        /\ http.fetched = <<>>

\* C6 (amended): every request whose filing_year is not an integer in
\* 2000..current_year is rejected (400 or 500, success false) without a call
\* of fetch_case_data; the error names the 2000..current_year bound when all
\* three fields are strings that are non-empty after stripping.
C6_BadYearRejected ==
    (http.kind = "fetch-case" /\ YearNotInRange(http.req)) =>
        /\ http.status \in {400, 500}
        /\ http.body.success = FALSE
        /\ http.fetched = <<>>
        /\ AllFieldsGiven(http.req) =>
               (http.status = 400 /\ http.body.error = BoundMessage)

\* a request with filing_year "1999" and the other fields given was rejected
C6_Witness ==
    /\ http.kind = "fetch-case"
    /\ http.req.filing_year = Str("1999")
    /\ AllFieldsGiven(http.req)
    /\ http.status = 400
    /\ http.body.error = "Filing year must be between 2000 and 2023"

\* C7: GET /api/case-types answers, whatever was fetched before, the same 17
\* entries in the same order, every code non-empty and unlike every other.
C7_CaseTypesStable ==
    http.kind = "case-types" =>
        LET types == http.body.data
        IN  /\ Len(types) = 17
            /\ \A i \in 1..17 : types[i].value = ExpectedCodes[i]
            /\ \A i \in 1..17 : types[i].value # ""
            /\ \A i, j \in 1..17 : i # j => types[i].value # types[j].value

\* the case types were served after a fetch had been logged
C7_Witness ==
    /\ http.kind = "case-types"
    /\ Len(http.body.data) = 17
    /\ query_logs # <<>>

\* C8: for a query that passes the endpoint's validation, fetch_case_data
\* returns a success whose case_number is the case type, a space, the case
\* number, a slash and the filing year: "W.P.(C) 1234/2023" for the query
\* (W.P.(C), 1234, 2023).
C8_ValidatedQuerySucceeds ==
    (ret.kind = "fetch_case_data"
        /\ validation_error(ret.args[1], ret.args[2], ret.args[3]) = "") =>
        /\ ret.outcome.success
        /\ ret.outcome.data.case_number
               = ret.args[1] \o " " \o ret.args[2] \o "/" \o ret.args[3]
        /\ ret.args = <<"W.P.(C)", "1234", "2023">> =>
               ret.outcome.data.case_number = "W.P.(C) 1234/2023"

\* the query of the scenario was fetched
C8_Witness ==
    /\ ret.kind = "fetch_case_data"
    /\ ret.args = <<"W.P.(C)", "1234", "2023">>
    /\ validation_error("W.P.(C)", "1234", "2023") = ""
    /\ ret.outcome.success
    /\ ret.outcome.data.case_number = "W.P.(C) 1234/2023"

\* C9: the case_history of a record made by _create_mock_case_data starts
\* with an event dated the filing date, and the dates of consecutive events
\* do not decrease.
C9_HistoryNonDecreasing ==
    (ret.kind = "fetch_case_data" /\ ret.outcome.success) =>
        LET h == ret.outcome.data.case_history
        IN  /\ Len(h) >= 1
            /\ h[1].date = ret.outcome.data.filing_date
            /\ \A i \in 1..(Len(h) - 1) : StrpDMY(h[i].date) <= StrpDMY(h[i + 1].date)

\* a history with events after the filing, the last of them left out because
\* they would be dated after today
C9_Witness ==
    /\ ret.kind = "fetch_case_data"
    /\ ret.outcome.success
    /\ Len(ret.outcome.data.case_history) >= 3
    /\ Len(ret.outcome.data.case_history) < 1 + ret.rnd.nEvents

\* C10: the orders of a record a fetch produces are sorted newest first: no
\* order is followed by an order with a later date.
C10_OrdersNewestFirst ==
    (ret.kind = "fetch_case_data" /\ ret.outcome.success) =>
        LET o == ret.outcome.data.orders
        IN  \A i \in 1..(Len(o) - 1) : StrpDMY(o[i].date) >= StrpDMY(o[i + 1].date)

\* several orders, generated oldest first, were returned
C10_Witness ==
    /\ ret.kind = "fetch_case_data"
    /\ ret.outcome.success
    /\ ret.rnd.nOrders >= 3
    /\ ret.rnd.orderDays[1] > ret.rnd.orderDays[2]
    /\ Len(ret.outcome.data.orders) = ret.rnd.nOrders

\* C11: when a call of fetch_case_data_real has returned, the browser session
\* it started is no longer open and the HTTP session it works with has been
\* closed, on every path of the call.
C11_SessionsReleasedAtReturn ==
    \A c \in Calls :
        call[c].pc = "returned" =>
            /\ call[c].driver # "open"
            /\ ~session.open

\* the steps of a call between its download of the CAPTCHA image and its
\* removal of the file
UsesCaptchaFile(c) == call[c].pc \in {"solve", "fill_captcha", "remove_file"}

\* C12: fetches in flight on one fetcher do not touch each other's resources:
\* while a call is writing captcha_temp.png the file is the one it opened, and
\* from its download to its removal the file holds the image that call
\* downloaded, neither overwritten nor deleted by another call.
C12_NoInterferenceBetweenFetches ==
    \A c \in Calls :
        /\ call[c].pc = "download" => captcha_file = [exists |-> TRUE, image |-> 0]
        /\ UsesCaptchaFile(c) => captcha_file = [exists |-> TRUE, image |-> c]

\* C13: every step of a call waits for a bounded time only, so a call that
\* has started always has a next step to take until it has returned: no call
\* is left waiting in a step that cannot end.
C13_EveryWaitEnds ==
    \A c \in Calls : call[c].pc # "idle" => ENABLED Step(c)

\* the phase of the spec's state machine a call is in: Idle until it has a
\* browser, SessionOpen while it loads and fills the form, CaptchaPending from
\* finding a CAPTCHA image until the step that looks for the submit button has
\* run, Failed or Done once it has returned.  FormSubmitted (line 183),
\* ResultsLoaded (lines 186-188) and Parsed (lines 191-192) belong to lines no
\* call executes.
Phase(f) ==
    CASE f.pc \in {"idle", "setup_webdriver"} -> "Idle"
      [] f.pc \in {"get", "wait_form", "fill_form", "find_captcha"} -> "SessionOpen"
      [] f.pc \in {"open_file", "download", "blocked", "solve", "fill_captcha",
                   "remove_file"} -> "CaptchaPending"
      [] f.pc = "submit" -> (IF f.captcha_seen THEN "CaptchaPending" ELSE "SessionOpen")
      [] f.pc = "returned" -> (IF f.outcome.success THEN "Done" ELSE "Failed")

\* the phase changes of the claimed order, and the failure from every phase
\* that is not terminal
ClaimedPhaseStep(p, q) ==
    \/ <<p, q>> \in {<<"Idle", "SessionOpen">>,
                     <<"SessionOpen", "FormSubmitted">>,
                     <<"FormSubmitted", "CaptchaPending">>,
                     <<"FormSubmitted", "ResultsLoaded">>,
                     <<"CaptchaPending", "ResultsLoaded">>,
                     <<"ResultsLoaded", "Parsed">>,
                     <<"Parsed", "Done">>}
    \/ p \notin {"Done", "Failed"} /\ q = "Failed"

\* C14: every step of a live fetch keeps its phase or moves it along the order
\* Idle, SessionOpen, FormSubmitted, optionally CaptchaPending, ResultsLoaded,
\* Parsed, Done, or to Failed; from Done and Failed the fetch only ends (the
\* caller takes the outcome and the next call starts at Idle).
C14_PhasesInClaimedOrder ==
    [][\A c \in Calls :
          \/ call[c].pc = "returned" /\ call'[c] = IdleFrame
          \/ Phase(call'[c]) = Phase(call[c])
          \/ ClaimedPhaseStep(Phase(call[c]), Phase(call'[c]))]_vars

\* the request passes the validation of fetch_case
PassesValidation(req) ==
    /\ StringFields(req)
    /\ validation_error(field_text(req.case_type), field_text(req.case_number),
                        field_text(req.filing_year)) = ""

\* a step in which POST /api/fetch-case is served
ServesFetchCase == http.kind = "idle" /\ http'.kind = "fetch-case"

\* the rows the step appended to query_logs
RowsAdded == SubSeq(query_logs', Len(query_logs) + 1, Len(query_logs'))

\* the step only appends to query_logs
OnlyAppends ==
    /\ Len(query_logs') >= Len(query_logs)
    /\ SubSeq(query_logs', 1, Len(query_logs)) = query_logs

\* a request that fails validation adds no row and does not reach the fetcher
RejectedLeavesNoTrace ==
    ~PassesValidation(http'.req) => (RowsAdded = <<>> /\ http'.fetched = <<>>)

\* C15 as claimed: serving POST /api/fetch-case adds no row and calls no fetch
\* for a request that fails validation, and for a request that passes it adds
\* exactly one row, made from the finished fetch: its success flag is the
\* success of the result that is returned.
C15_Original_ExactlyOneRow ==
    [][ServesFetchCase =>
          /\ OnlyAppends
          /\ RejectedLeavesNoTrace
          /\ PassesValidation(http'.req) =>
                /\ Len(http'.fetched) = 1
                /\ Len(RowsAdded) = 1
                /\ RowsAdded[1].success = http'.body.success]_vars

\* C15: serving POST /api/fetch-case adds no row and calls no fetch for a
\* request that fails validation; for a request that passes it calls the fetch
\* once and adds at most one row: exactly one, carrying the success of the
\* returned result, when the database accepts the insert, and none when it
\* does not.
C15_OneRowWhenInsertSucceeds ==
    [][ServesFetchCase =>
          /\ OnlyAppends
          /\ RejectedLeavesNoTrace
          /\ PassesValidation(http'.req) =>
                /\ Len(http'.fetched) = 1
                /\ IF http'.db_ok
                   THEN /\ Len(RowsAdded) = 1
                        /\ RowsAdded[1].success = http'.body.success
                        /\ RowsAdded[1].case_number = http'.fetched[1][2]
                   ELSE RowsAdded = <<>>]_vars

\* a valid request was served while the log already held a row, and its row
\* was added after it
C15_Witness ==
    /\ http.kind = "fetch-case"
    /\ PassesValidation(http.req)
    /\ http.db_ok
    /\ Len(query_logs) >= 2
    /\ query_logs[Len(query_logs)].success = http.body.success

\* C16: a call of fetch_case_data_real that has written the CAPTCHA image to
\* captcha_temp.png has returned only with the file removed, whether the
\* CAPTCHA was solved, was not solved, or a later step raised.
C16_CaptchaFileRemovedAtReturn ==
    \A c \in Calls :
        (call[c].pc = "returned" /\ call[c].file_written) => ~captcha_file.exists

=============================================================================
